---- MODULE Spec2Model ----
(***************************************************************************)
(* Model of the Hibiki synchronization engine (src/hibiki/core.py) with    *)
(* the filter sets of src/hibiki/config.py, the catalog interface of       *)
(* src/hibiki/itunes.py and the copy thread of src/CLI.py.                 *)
(*                                                                         *)
(* One engine object runs the pipeline generate_sync_list -> copy_tracks.  *)
(* The destination volume is modelled by its regular files, its numbered   *)
(* folders, its free byte count and the content of the state file.  The    *)
(* state file itself is taken to occupy no space.  A completely copied     *)
(* file has the size the catalog records for its track.                    *)
(***************************************************************************)
EXTENDS Integers, Sequences, FiniteSets, TLC

VARIABLES
    itunes,         \* Hibiki.itunes: [tracks : Seq(track), playlists : Seq(playlist)]
    config,         \* Hibiki.config: filters and settings
    error_callback, \* TRUE when the caller passes an error_callback
    tracks,         \* Hibiki.tracks: set of persistent ids (the plan)
    subfolder,      \* Hibiki._subfolder
    statefile,      \* content of the library (state) file on the destination
    files,          \* regular files of the destination: path -> file record
    dirs,           \* numbered folders that exist on the destination
    free,           \* f_bavail * f_frsize of the destination volume
    pc,             \* position of the pipeline
    space,          \* local `space` of generate_sync_list
    idx,            \* position of the catalog iterator in use
    music,          \* local `music` of the random fill (catalog positions left)
    destination,    \* local `destination` of copy_tracks
    end_signal,     \* local `end_signal` of copy_tracks
    quit,           \* CopyScreen.quit
    events,         \* notifications emitted in the current run, in order
    exc,            \* exception that left the pipeline, "" when none
    wbuf,           \* value handed to the library_data setter
    wret,           \* position to continue at when the setter returns
    budget,         \* history: value returned by calculate_space in this run
    admitted,       \* history: admissions of this run's planner, in order
    plan0,          \* history: Hibiki.tracks when the run started
    pre,            \* history: plan and store when _clean_sync_list started,
                    \* identifiers of the store when copy_tracks started
    failed,         \* history: persistent ids whose copy raised OSError in this run
    recorded,       \* history: persistent ids whose _mark_file completed in this run
    pruned,         \* history: entries dropped by calculate_space in this run
    filterfile,     \* content of the two filter files
    loaded,         \* outcome of load_from_file per filter set, "" before the call
    saved,          \* history: names of the include set at the last save_to_file
                    \* and names it held when the file was last read
    prompt,         \* the selection prompt: index of its screen, labels and
                    \* checked labels of its checkboxes, copy screens opened
    runs,           \* number of runs started
    faults,         \* number of injected I/O failures
    crashes,        \* number of process crashes
    manual,         \* number of files deleted by hand on the destination
    cancels,        \* number of times the caller set the cancellation flag
    changes         \* number of filter changes between runs, or of checkbox
                    \* changes in the selection prompt

vars == << itunes, config, error_callback, tracks, subfolder, statefile, files,
           dirs, free, pc, space, idx, music, destination, end_signal, quit,
           events, exc, wbuf, wret, budget, admitted, plan0, pre, failed,
           recorded, pruned, filterfile, loaded, saved, prompt, runs, faults,
           crashes, manual, cancels, changes >>

(***************************************************************************)
(* Bounds                                                                  *)
(***************************************************************************)
MaxRuns == 2
MaxFaults == 2
MaxCrashes == 1
MaxChanges == 1
MaxManual == 1
MaxDisturbances == 2
MaxHeadroom == 3

(***************************************************************************)
(* Program constants                                                       *)
(***************************************************************************)
DefaultReserve == 5
Reserve == DefaultReserve * 1024 * 1024

Root == -1
NoPath == [dir |-> -2, name |-> ""]
Unbound == [dir |-> -3, name |-> ""]

(***************************************************************************)
(* Catalogs (iTunesLibrary).  Track identifiers and persistent identifiers *)
(* are unique per track; two tracks of different albums may share a        *)
(* source filename.                                                        *)
(***************************************************************************)
Track(i, p, al, ar, g, s, f) ==
    [track_id |-> i, persistent_id |-> p, album |-> al, artist |-> ar,
     genre |-> g, size |-> s, filename |-> f]

CatalogA ==
    [tracks |-> << Track(1, "P1", "A1", "X", "rock", 1, "01.mp3"),
                   Track(2, "P2", "A1", "X", "jazz", 2, "02.mp3"),
                   Track(3, "P3", "A2", "Y", "rock", 2, "01.mp3") >>,
     playlists |-> << [name |-> "fav", tracks |-> {2, 3}],
                      [name |-> "live", tracks |-> {3}] >>]

CatalogB ==
    [tracks |-> << Track(1, "P1", "A1", "X", "rock", 2, "a.mp3"),
                   Track(2, "P2", "A1", "X", "jazz", 2, "b.mp3"),
                   Track(3, "P3", "A2", "Y", "rock", 1, "c.mp3") >>,
     playlists |-> << [name |-> "fav", tracks |-> {2, 3}],
                      [name |-> "live", tracks |-> {3}] >>]

Catalogs == {CatalogA, CatalogB}

\* value of an attribute for which the catalog has no key
\* (iTunesTrack.__init__ sets album, artist and genre to None); it is equal
\* to no name
None == "<None>"

\* catalogs whose tracks lack an album, an artist or a genre, with the sizes
\* of the planning scenarios
PlanSizes == { << 600, 500, 400 >>, << 600, 500, 500 >>,
               << 500, 600, 400 >>, << 400, 400, 400 >> }

PlanCatalog(sz) ==
    [tracks |-> << Track(1, "P1", "A1", "X", None, sz[1], "a.mp3"),
                   Track(2, "P2", None, "X", "jazz", sz[2], "b.mp3"),
                   Track(3, "P3", "A2", None, "rock", sz[3], "c.mp3") >>,
     playlists |-> << [name |-> "fav", tracks |-> {3}] >>]

PlanCatalogs == { PlanCatalog(sz) : sz \in PlanSizes }

(***************************************************************************)
(* HibikiConfigFilters                                                     *)
(***************************************************************************)
Filter(al, ar, g, pl) ==
    [albums |-> al, artists |-> ar, genres |-> g, playlists |-> pl, tracks |-> {}]

EmptyFilter == Filter({}, {}, {}, {})

IncludeChoices == { EmptyFilter, Filter({}, {"X"}, {}, {"fav"}) }

ExcludeChoices == { EmptyFilter, Filter({}, {}, {}, {"live"}) }

\* mutant: a track without album matches as soon as the set names an album
is_filtered_Mutant(f, track) ==
    \/ track.album \in f.albums
    \/ track.album = None /\ f.albums # {}
    \/ track.artist \in f.artists
    \/ track.genre \in f.genres
    \/ track.track_id \in f.tracks

is_filtered(f, track) ==
    \/ track.album \in f.albums
    \/ track.artist \in f.artists
    \/ track.genre \in f.genres
    \/ track.track_id \in f.tracks

get_playlist_tracks(f) ==
    [f EXCEPT !.tracks = @ \cup UNION { itunes.playlists[i].tracks :
                i \in { j \in DOMAIN itunes.playlists :
                            itunes.playlists[j].name \in f.playlists } }]

Names(f) == [albums |-> f.albums, artists |-> f.artists,
             genres |-> f.genres, playlists |-> f.playlists]

(***************************************************************************)
(* Filter files.  A file is missing, holds text that is not JSON, holds a  *)
(* JSON value that is not an object, or holds an object with up to four    *)
(* lists of names.                                                         *)
(***************************************************************************)
Absent == [present |-> FALSE, items |-> {}]
Items(S) == [present |-> TRUE, items |-> S]

Doc(k, al, ar, g, pl) ==
    [kind |-> k, albums |-> al, artists |-> ar, genres |-> g, playlists |-> pl]

MissingDoc == Doc("missing", Absent, Absent, Absent, Absent)
GarbageDoc == Doc("garbage", Absent, Absent, Absent, Absent)
ArrayDoc == Doc("array", Absent, Absent, Absent, Absent)
ObjectDoc(al, ar, g, pl) == Doc("object", al, ar, g, pl)

\* serialize: a group with no item is left out
serialize(f) ==
    LET field(S) == IF S = {} THEN Absent ELSE Items(S)
    IN  ObjectDoc(field(f.albums), field(f.artists), field(f.genres),
                  field(f.playlists))

save_to_file(f) == serialize(f)

\* mutant: a field absent from the document leaves the name set as it was
load_from_file_Mutant(doc, f) ==
    CASE doc.kind = "missing" -> [outcome |-> "FileNotFoundError", filter |-> f]
      [] doc.kind = "garbage" -> [outcome |-> "InvalidConfigError", filter |-> f]
      [] doc.kind = "array" -> [outcome |-> "AttributeError", filter |-> f]
      [] OTHER -> [outcome |-> "ok",
                   filter |-> [f EXCEPT
                       !.albums = IF doc.albums.present THEN doc.albums.items ELSE @,
                       !.artists = IF doc.artists.present THEN doc.artists.items ELSE @,
                       !.genres = IF doc.genres.present THEN doc.genres.items ELSE @,
                       !.playlists = IF doc.playlists.present
                                     THEN doc.playlists.items ELSE @]]

\* load_from_file: the exception it raises ("ok" when none) and the filter
\* set it leaves
load_from_file(doc, f) ==
    CASE doc.kind = "missing" -> [outcome |-> "FileNotFoundError", filter |-> f]
      [] doc.kind = "garbage" -> [outcome |-> "InvalidConfigError", filter |-> f]
      [] doc.kind = "array" -> [outcome |-> "AttributeError", filter |-> f]
      [] OTHER -> [outcome |-> "ok",
                   filter |-> [f EXCEPT !.albums = doc.albums.items,
                                        !.artists = doc.artists.items,
                                        !.genres = doc.genres.items,
                                        !.playlists = doc.playlists.items]]

IncludeDocs ==
    { MissingDoc, GarbageDoc, ArrayDoc } \cup
    { ObjectDoc(al, ar, g, pl) : al \in {Absent, Items({"A2"})},
                                 ar \in {Absent, Items({"X"})},
                                 g \in {Absent, Items({})},
                                 pl \in {Absent, Items({"fav"})} }

ExcludeDocs ==
    { ObjectDoc(Absent, Absent, Absent, Absent),
      ObjectDoc(Absent, Absent, Items({"jazz"}), Absent) }

(***************************************************************************)
(* The state store: an ordered mapping persistent id -> relative path      *)
(***************************************************************************)
Keys(lib) == { lib[i].id : i \in DOMAIN lib }

Get(lib, k) == lib[CHOOSE i \in DOMAIN lib : lib[i].id = k].path

Put(lib, k, path) ==
    IF k \in Keys(lib)
    THEN [i \in DOMAIN lib |-> IF lib[i].id = k THEN [id |-> k, path |-> path]
                                                ELSE lib[i]]
    ELSE Append(lib, [id |-> k, path |-> path])

Del(lib, k) == SelectSeq(lib, LAMBDA e : e.id # k)

KeySeq(lib) == [i \in DOMAIN lib |-> lib[i].id]

EmptyFile == [kind |-> "empty", data |-> << >>]
\* a file that holds the beginning of a JSON document
TornFile == [kind |-> "torn", data |-> << >>]
Json(lib) == [kind |-> "json", data |-> lib]

\* library_data getter: content that is not JSON reads as the empty mapping
library_data == IF statefile.kind = "json" THEN statefile.data ELSE << >>

(***************************************************************************)
(* The destination file system                                             *)
(***************************************************************************)
Path(d, n) == [dir |-> d, name |-> n]

FileRemove(fs, p) == [q \in (DOMAIN fs) \ {p} |-> fs[q]]

FileWrite(fs, p, rec) == [q \in (DOMAIN fs) \cup {p} |-> IF q = p THEN rec ELSE fs[q]]

Bytes(fs, p) == IF p \in DOMAIN fs THEN fs[p].bytes ELSE 0

\* file[0] != '.': the names that start with a dot
DotNames == {".hidden"}

VisibleCount(d) ==
    Cardinality({ p \in DOMAIN files : p.dir = d /\ p.name \notin DotNames })

\* mutant: a folder that holds the maximum is still returned
HasRoom_Mutant(d) == VisibleCount(d) <= config.max_file_count

HasRoom(d) == VisibleCount(d) < config.max_file_count

RECURSIVE target_directory(_, _)
target_directory(sf, ds) ==
    IF ~config.use_subfolders
    THEN [dir |-> Root, sub |-> sf, dirs |-> ds]
    ELSE IF sf \in ds
         THEN IF HasRoom(sf)
              THEN [dir |-> sf, sub |-> sf, dirs |-> ds]
              ELSE target_directory(sf + 1, ds)
         ELSE [dir |-> sf, sub |-> sf, dirs |-> ds \cup {sf}]

(***************************************************************************)
(* Notifications                                                           *)
(***************************************************************************)
Event(k, p, path) == [kind |-> k, pid |-> p, path |-> path]

NumTracks == Len(itunes.tracks)

\* mutant: an identifier is resolved whether or not the catalog has it
track_by_persistent_id_Mutant(p) == p

track_by_persistent_id(p) ==
    IF \E i \in 1..NumTracks : itunes.tracks[i].persistent_id = p
    THEN p ELSE ""

(***************************************************************************)
(* library_data setter: open(path, 'w') truncates the file, json.dump then *)
(* writes the new content.                                                 *)
(***************************************************************************)
Running == pc \notin {"idle", "finished", "raised"}

Memory == << tracks, subfolder, space, idx, music, destination, end_signal >>
Disk == << statefile, files, dirs, free >>
History == << budget, admitted, plan0, pre, failed, recorded, pruned >>
Counters == << runs, faults, crashes, manual, cancels, changes >>
Setup == << itunes, error_callback, filterfile, loaded, saved, prompt >>

\* events of the environment so far: I/O failures, crashes, manual deletions,
\* cancellations and filter changes
Disturbances == faults + crashes + manual + cancels + changes

LibraryDataSetOpen ==
    /\ pc = "w_open"
    /\ statefile' = EmptyFile
    /\ pc' = "w_dump"
    /\ UNCHANGED << Setup, config, Memory, files, dirs, free, quit, events, exc,
                    wbuf, wret, History, Counters >>

LibraryDataSetDump ==
    /\ pc = "w_dump"
    /\ statefile' = Json(wbuf)
    /\ pc' = wret
    /\ recorded' = IF wret = "after" THEN recorded \cup {itunes.tracks[idx - 1].persistent_id}
                                     ELSE recorded
    /\ UNCHANGED << Setup, config, Memory, files, dirs, free, quit, events, exc,
                    wbuf, wret, budget, admitted, plan0, pre, failed, pruned,
                    Counters >>

(***************************************************************************)
(* CopyScreen.run: starts the pipeline on the engine object                *)
(***************************************************************************)
NoPre == [plan |-> {}, store |-> << >>, files |-> << >>, held |-> {}]

StartRun ==
    /\ pc \in {"idle", "finished"}
    /\ runs < MaxRuns
    /\ runs' = runs + 1
    /\ pc' = "calc"
    /\ quit' = FALSE
    /\ events' = << >>
    /\ plan0' = tracks
    /\ admitted' = << >>
    /\ failed' = {}
    /\ recorded' = {}
    /\ pruned' = {}
    /\ budget' = 0
    /\ pre' = NoPre
    /\ UNCHANGED << Setup, config, Memory, Disk, exc, wbuf, wret,
                    faults, crashes, manual, cancels, changes >>

(***************************************************************************)
(* Hibiki.calculate_space                                                  *)
(***************************************************************************)
\* mutant: the reserve is taken in bytes, not in MiB
space_available_Mutant(reserve) == free - reserve

space_available(reserve) == free - (reserve * 1024 * 1024)

\* mutant: the entry of a missing file is kept
calc_entry_Mutant(k, st) ==
    LET path == Get(st.lib, k) IN
    IF path \notin DOMAIN files
    THEN st
    ELSE [st EXCEPT !.available = @ + files[path].bytes]

\* one iteration of `for track in library.copy()`
calc_entry(k, st) ==
    LET path == Get(st.lib, k) IN
    IF path \notin DOMAIN files
    THEN [st EXCEPT !.lib = Del(@, k)]
    ELSE [st EXCEPT !.available = @ + files[path].bytes]

RECURSIVE calc_loop(_, _)
calc_loop(keys, st) ==
    IF keys = << >> THEN st
    ELSE calc_loop(Tail(keys), calc_entry(Head(keys), st))

CalculateSpace ==
    /\ pc = "calc"
    /\ LET r == calc_loop(KeySeq(library_data),
                          [lib |-> library_data,
                           available |-> space_available(DefaultReserve)])
       IN  /\ wbuf' = r.lib
           /\ space' = r.available
           /\ budget' = r.available
           /\ pruned' = Keys(library_data) \ Keys(r.lib)
    /\ wret' = "resolve"
    /\ pc' = "w_open"
    /\ UNCHANGED << Setup, config, tracks, subfolder, idx, music, destination,
                    end_signal, Disk, quit, events, exc, admitted, plan0, pre,
                    failed, recorded, Counters >>

(***************************************************************************)
(* Hibiki.generate_sync_list: playlist resolution, include pass, random    *)
(* fill                                                                    *)
(***************************************************************************)
ResolvePlaylists ==
    /\ pc = "resolve"
    /\ config' = [config EXCEPT !.excludes = get_playlist_tracks(@),
                                !.includes = get_playlist_tracks(@)]
    /\ idx' = 1
    /\ pc' = "include"
    /\ UNCHANGED << Setup, tracks, subfolder, space, music, destination,
                    end_signal, Disk, quit, events, exc, wbuf, wret, History,
                    Counters >>

\* mutant: the size check compares against the budget before any admission
Fits_Mutant(sp, track) == budget >= track.size

Fits(sp, track) == sp >= track.size

Admission(track, sp) == [pid |-> track.persistent_id, size |-> track.size, before |-> sp]

\* mutant: the include test comes first and wins over the exclude test
IncludeAdmits_Mutant(track) ==
    /\ is_filtered(config.includes, track)
    /\ Fits(space, track)

IncludeAdmits(track) ==
    /\ ~is_filtered(config.excludes, track)
    /\ is_filtered(config.includes, track)
    /\ Fits(space, track)

IncludeStep ==
    /\ pc = "include"
    /\ IF idx > NumTracks
       THEN /\ pc' = IF config.random_fill THEN "fill" ELSE "clean"
            /\ music' = IF config.random_fill THEN 1..NumTracks ELSE music
            /\ UNCHANGED << idx, space, tracks, admitted >>
       ELSE LET track == itunes.tracks[idx] IN
            /\ idx' = idx + 1
            /\ IF IncludeAdmits(track)
               THEN /\ space' = space - track.size
                    /\ tracks' = tracks \cup {track.persistent_id}
                    /\ admitted' = Append(admitted, Admission(track, space))
               ELSE UNCHANGED << space, tracks, admitted >>
            /\ UNCHANGED << pc, music >>
    /\ UNCHANGED << Setup, config, subfolder, destination, end_signal, Disk,
                    quit, events, exc, wbuf, wret, budget, plan0, pre, failed,
                    recorded, pruned, Counters >>

\* mutant: the drawn track stays in the working list
Remaining_Mutant(m, i) == m

\* music.remove(track)
Remaining(m, i) == m \ {i}

\* mutant: the fill admits only what the include filter matches
FillAdmits_Mutant(track) ==
    /\ ~is_filtered(config.excludes, track)
    /\ is_filtered(config.includes, track)
    /\ track.persistent_id \notin tracks
    /\ Fits(space, track)

FillAdmits(track) ==
    /\ ~is_filtered(config.excludes, track)
    /\ track.persistent_id \notin tracks
    /\ Fits(space, track)

FillStep ==
    /\ pc = "fill"
    /\ IF music = {}
       THEN /\ pc' = "clean"
            /\ UNCHANGED << music, space, tracks, admitted >>
       ELSE \E i \in music :
              LET track == itunes.tracks[i] IN
              /\ IF FillAdmits(track)
                 THEN /\ space' = space - track.size
                      /\ tracks' = tracks \cup {track.persistent_id}
                      /\ admitted' = Append(admitted, Admission(track, space))
                 ELSE UNCHANGED << space, tracks, admitted >>
              /\ music' = Remaining(music, i)
              /\ UNCHANGED pc
    /\ UNCHANGED << Setup, config, subfolder, idx, destination, end_signal,
                    Disk, quit, events, exc, wbuf, wret, budget, plan0, pre,
                    failed, recorded, pruned, Counters >>

(***************************************************************************)
(* Hibiki._clean_sync_list                                                 *)
(***************************************************************************)
\* mutant: an entry that is in the plan is left in the plan
clean_entry_Mutant(k, st) ==
    IF k \in st.tracks
    THEN st
    ELSE LET path == Get(st.lib, k) IN
         IF path \notin DOMAIN st.files
         THEN [st EXCEPT !.events = IF error_callback
                                    THEN Append(@, Event("error", "", path))
                                    ELSE @]
         ELSE [st EXCEPT !.free = @ + st.files[path].bytes,
                         !.files = FileRemove(@, path),
                         !.events = Append(@, Event("delete", track_by_persistent_id(k),
                                        IF track_by_persistent_id(k) = "" THEN path ELSE NoPath)),
                         !.lib = Del(@, k)]

clean_entry(k, st) ==
    IF k \in st.tracks
    THEN [st EXCEPT !.tracks = @ \ {k}]
    ELSE LET path == Get(st.lib, k) IN
         IF path \notin DOMAIN st.files
         THEN [st EXCEPT !.events = IF error_callback
                                    THEN Append(@, Event("error", "", path))
                                    ELSE @]
         ELSE [st EXCEPT !.free = @ + st.files[path].bytes,
                         !.files = FileRemove(@, path),
                         !.events = Append(@, Event("delete", track_by_persistent_id(k),
                                        IF track_by_persistent_id(k) = "" THEN path ELSE NoPath)),
                         !.lib = Del(@, k)]

\* mutant: the pass ends at the first entry whose file cannot be deleted
RECURSIVE clean_loop_Mutant(_, _)
clean_loop_Mutant(keys, st) ==
    IF keys = << >> THEN st
    ELSE IF Head(keys) \notin st.tracks /\ Get(st.lib, Head(keys)) \notin DOMAIN st.files
         THEN st
         ELSE clean_loop_Mutant(Tail(keys), clean_entry(Head(keys), st))

RECURSIVE clean_loop(_, _)
clean_loop(keys, st) ==
    IF keys = << >> THEN st
    ELSE clean_loop(Tail(keys), clean_entry(Head(keys), st))

CleanSyncList ==
    /\ pc = "clean"
    /\ LET r == clean_loop(KeySeq(library_data),
                           [lib |-> library_data, tracks |-> tracks, files |-> files,
                            free |-> free, events |-> events])
       IN  /\ tracks' = r.tracks
           /\ files' = r.files
           /\ free' = r.free
           /\ events' = r.events
           /\ wbuf' = r.lib
    /\ pre' = [plan |-> tracks, store |-> library_data, files |-> files, held |-> {}]
    /\ wret' = "copy_start"
    /\ pc' = "w_open"
    /\ UNCHANGED << Setup, config, subfolder, space, idx, music, destination,
                    end_signal, statefile, dirs, quit, exc, budget, admitted,
                    plan0, failed, recorded, pruned, Counters >>

(***************************************************************************)
(* Hibiki.copy_tracks                                                      *)
(***************************************************************************)
CopyStart ==
    /\ pc = "copy_start"
    /\ end_signal' = quit       \* end_signal=self.quit: the value at call time
    /\ idx' = 1                 \* track_iterator = self.itunes.tracks
    /\ destination' = Unbound
    /\ pre' = [pre EXCEPT !.held = Keys(library_data)]
    /\ pc' = "copy_loop"
    /\ UNCHANGED << Setup, config, tracks, subfolder, space, music, Disk, quit,
                    events, exc, wbuf, wret, budget, admitted, plan0, failed,
                    recorded, pruned, Counters >>

\* mutant: reconciliation runs again when the copy loop has ended
CopyReturn_Mutant ==
    /\ pc = "copy_loop"
    /\ end_signal \/ idx > NumTracks
    /\ pc' = "clean"
    /\ UNCHANGED << Setup, config, Memory, Disk, quit, events, exc, wbuf, wret,
                    History, Counters >>

CopyReturn ==
    /\ pc = "copy_loop"
    /\ end_signal \/ idx > NumTracks
    /\ pc' = "finished"
    /\ UNCHANGED << Setup, config, Memory, Disk, quit, events, exc, wbuf, wret,
                    History, Counters >>

CopySkip ==
    /\ pc = "copy_loop"
    /\ ~end_signal
    /\ idx <= NumTracks
    /\ itunes.tracks[idx].persistent_id \notin tracks
    /\ idx' = idx + 1
    /\ UNCHANGED << Setup, config, tracks, subfolder, space, music, destination,
                    end_signal, Disk, quit, events, exc, wbuf, wret, pc, History,
                    Counters >>

\* _copy_file: outcome of copying `track` to `path`
\*   "ok"      the copy completes
\*   "nosrc"   open(track.path) raises FileNotFoundError, nothing is written
\*   "partial" the write raises OSError after part of the bytes were written
CopyOutcomes(track, path) ==
    LET avail == free + Bytes(files, path) IN
    (IF track.size <= avail THEN {"ok"} ELSE {"partial"})
        \cup (IF faults < MaxFaults /\ Disturbances < MaxDisturbances
              THEN {"nosrc", "partial"} ELSE {})

Written(track, path) ==
    LET avail == free + Bytes(files, path) IN
    IF track.size > avail THEN avail ELSE track.size \div 2

copy_file(track, path, outcome) ==
    CASE outcome = "ok" ->
            [files |-> FileWrite(files, path, [pid |-> track.persistent_id,
                                               bytes |-> track.size, complete |-> TRUE]),
             free |-> free + Bytes(files, path) - track.size]
      [] outcome = "partial" ->
            [files |-> FileWrite(files, path, [pid |-> track.persistent_id,
                                               bytes |-> Written(track, path),
                                               complete |-> FALSE]),
             free |-> free + Bytes(files, path) - Written(track, path)]
      [] OTHER -> [files |-> files, free |-> free]

\* except OSError as error: os.remove(destination) ...
RemovedOnError(track, path) == destination

HandleCopyError(track, path, fs) ==
    LET victim == RemovedOnError(track, path) IN
    IF victim = Unbound
    THEN /\ exc' = "UnboundLocalError"
         /\ pc' = "raised"
         /\ files' = fs.files
         /\ free' = fs.free
         /\ events' = Append(events, Event("before_copy", track.persistent_id, NoPath))
    ELSE IF victim \notin DOMAIN fs.files
    THEN /\ exc' = "FileNotFoundError"
         /\ pc' = "raised"
         /\ files' = fs.files
         /\ free' = fs.free
         /\ events' = Append(events, Event("before_copy", track.persistent_id, NoPath))
    ELSE /\ files' = FileRemove(fs.files, victim)
         /\ free' = fs.free + fs.files[victim].bytes
         /\ exc' = exc
         /\ IF error_callback
            THEN /\ events' = events \o << Event("before_copy", track.persistent_id, NoPath),
                                           Event("error", track.persistent_id, NoPath) >>
                 /\ pc' = "copy_loop"
            ELSE /\ events' = Append(events, Event("before_copy", track.persistent_id, NoPath))
                 /\ pc' = "mark"

CopyTrack ==
    /\ pc = "copy_loop"
    /\ ~end_signal
    /\ idx <= NumTracks
    /\ itunes.tracks[idx].persistent_id \in tracks
    /\ LET track == itunes.tracks[idx]
           td == target_directory(subfolder, dirs)
           path == Path(td.dir, track.filename)
       IN  /\ idx' = idx + 1
           /\ subfolder' = td.sub
           /\ dirs' = td.dirs
           /\ \E outcome \in CopyOutcomes(track, path) :
                LET fs == copy_file(track, path, outcome) IN
                IF outcome = "ok"
                THEN /\ files' = fs.files
                     /\ free' = fs.free
                     /\ destination' = path
                     /\ events' = Append(events, Event("before_copy", track.persistent_id, NoPath))
                     /\ pc' = "mark"
                     /\ UNCHANGED << exc, failed, faults >>
                ELSE /\ HandleCopyError(track, path, fs)
                     /\ failed' = failed \cup {track.persistent_id}
                     /\ faults' = IF track.size <= free + Bytes(files, path)
                                  THEN faults + 1 ELSE faults
                     /\ UNCHANGED destination
    /\ UNCHANGED << Setup, config, tracks, space, music, end_signal, statefile,
                    quit, wbuf, wret, budget, admitted, plan0, pre, recorded,
                    pruned, runs, crashes, manual, cancels, changes >>

(***************************************************************************)
(* Hibiki._mark_file and the after-copy notification                       *)
(***************************************************************************)
MarkFile ==
    /\ pc = "mark"
    /\ wbuf' = Put(library_data, itunes.tracks[idx - 1].persistent_id, destination)
    /\ wret' = "after"
    /\ pc' = "w_open"
    /\ UNCHANGED << Setup, config, Memory, Disk, quit, events, exc, History, Counters >>

AfterCallback ==
    /\ pc = "after"
    /\ events' = Append(events, Event("after_copy", itunes.tracks[idx - 1].persistent_id, NoPath))
    /\ pc' = "copy_loop"
    /\ UNCHANGED << Setup, config, Memory, Disk, quit, exc, wbuf, wret, History, Counters >>

(***************************************************************************)
(* The caller and the environment                                          *)
(***************************************************************************)
\* CopyScreen.exit sets the flag while the copy thread runs: just before
\* copy_tracks is called, or at any point of copy_tracks
Exit ==
    /\ pc \in {"copy_start", "copy_loop", "mark", "after"}
    /\ ~quit
    /\ Disturbances < MaxDisturbances
    /\ quit' = TRUE
    /\ cancels' = cancels + 1
    /\ UNCHANGED << Setup, config, Memory, Disk, pc, events, exc, wbuf, wret,
                    History, runs, faults, crashes, manual, changes >>

\* a new engine object: Hibiki.__init__ and HibikiConfigFilters.__init__,
\* with the filter names read back from the filter files
FreshMemory ==
    /\ tracks' = {}
    /\ subfolder' = 0
    /\ config' = [config EXCEPT !.includes.tracks = {}, !.excludes.tracks = {}]
    /\ space' = 0
    /\ idx' = 1
    /\ music' = {}
    /\ destination' = Unbound
    /\ end_signal' = FALSE
    /\ quit' = FALSE
    /\ exc' = ""
    /\ wbuf' = << >>
    /\ wret' = ""
    /\ pc' = "idle"

\* the process dies at any point of a run and is started again; when it dies
\* inside json.dump the file is left empty or with part of the document
Crash ==
    /\ Running
    /\ crashes < MaxCrashes
    /\ Disturbances < MaxDisturbances
    /\ crashes' = crashes + 1
    /\ FreshMemory
    /\ statefile' \in IF pc = "w_dump" /\ wbuf # << >>
                      THEN {statefile, TornFile} ELSE {statefile}
    /\ UNCHANGED << Setup, files, dirs, free, events, History, runs, faults,
                    manual, cancels, changes >>

\* the program is started again after a run ended
NewProcess ==
    /\ pc \in {"finished", "raised"}
    /\ FreshMemory
    /\ UNCHANGED << Setup, Disk, events, History, Counters >>

\* the user changes the selection of one filter set between two runs
\* (SelectionPrompt.save -> add_album / add_artist / add_genre / add_playlist);
\* open_copy saves both sets to their files
WithNames(f, g) == [g EXCEPT !.tracks = f.tracks]

ChangeFilters ==
    /\ pc = "finished"
    /\ runs < MaxRuns
    /\ changes < MaxChanges
    /\ Disturbances < MaxDisturbances
    /\ changes' = changes + 1
    /\ \/ \E g \in IncludeChoices :
            /\ Names(g) # Names(config.includes)
            /\ config' = [config EXCEPT !.includes = WithNames(@, g)]
       \/ \E g \in ExcludeChoices :
            /\ Names(g) # Names(config.excludes)
            /\ config' = [config EXCEPT !.excludes = WithNames(@, g)]
    /\ filterfile' = [includes |-> save_to_file(config'.includes),
                      excludes |-> save_to_file(config'.excludes)]
    /\ UNCHANGED << itunes, error_callback, prompt, loaded, saved, Memory, Disk, pc,
                    quit, events, exc, wbuf, wret, History, runs, faults,
                    crashes, manual, cancels >>

\* the user deletes a file of the destination by hand, between two runs or
\* while the plan is being computed
ManualDelete ==
    /\ pc \in {"idle", "clean"}
    /\ manual < MaxManual
    /\ Disturbances < MaxDisturbances
    /\ manual' = manual + 1
    /\ \E p \in DOMAIN files :
            /\ files' = FileRemove(files, p)
            /\ free' = free + files[p].bytes
    /\ UNCHANGED << Setup, config, Memory, statefile, dirs, pc, quit, events,
                    exc, wbuf, wret, History, runs, faults, crashes, cancels,
                    changes >>

(***************************************************************************)
(* Specification                                                           *)
(***************************************************************************)
\* SelectionPrompt._init_options: both filter sets are read from their
\* files; FileNotFoundError and InvalidConfigError are caught and ignored
Caught == {"ok", "FileNotFoundError", "InvalidConfigError"}

LoadFromFile ==
    /\ pc = "load"
    /\ LET inc == load_from_file(filterfile.includes, config.includes)
           exl == load_from_file(filterfile.excludes, config.excludes)
       IN  IF inc.outcome \notin Caught
           THEN /\ loaded' = [loaded EXCEPT !.includes = inc.outcome]
                /\ config' = [config EXCEPT !.includes = inc.filter]
                /\ exc' = inc.outcome
                /\ pc' = "raised"
           ELSE /\ loaded' = [includes |-> inc.outcome, excludes |-> exl.outcome]
                /\ config' = [config EXCEPT !.includes = inc.filter,
                                            !.excludes = exl.filter]
                /\ exc' = IF exl.outcome \in Caught THEN exc ELSE exl.outcome
                /\ pc' = IF exl.outcome \in Caught THEN "idle" ELSE "raised"
    /\ UNCHANGED << itunes, error_callback, prompt, filterfile, saved, Memory, Disk,
                    quit, events, wbuf, wret, History, Counters >>

(***************************************************************************)
(* Specification                                                           *)
(***************************************************************************)
FreeChoices == {Reserve - 1, Reserve + MaxHeadroom}

NoPrompt == [index |-> 0, items |-> {}, boxes |-> {}, opened |-> 0]

NotSaved == [valid |-> FALSE, names |-> Names(EmptyFilter), held |-> Names(EmptyFilter)]

\* a destination that was never synchronized
EmptyDestination ==
    /\ statefile = EmptyFile
    /\ files = << >>
    /\ dirs = {}

\* a new engine object
Fresh ==
    /\ tracks = {}
    /\ subfolder = 0
    /\ space = 0
    /\ idx = 1
    /\ music = {}
    /\ destination = Unbound
    /\ end_signal = FALSE
    /\ quit = FALSE
    /\ events = << >>
    /\ exc = ""
    /\ wbuf = << >>
    /\ wret = ""
    /\ budget = 0
    /\ admitted = << >>
    /\ plan0 = {}
    /\ pre = NoPre
    /\ failed = {}
    /\ recorded = {}
    /\ pruned = {}
    /\ saved = NotSaved
    /\ prompt = NoPrompt
    /\ runs = 0
    /\ faults = 0
    /\ crashes = 0
    /\ manual = 0
    /\ cancels = 0
    /\ changes = 0

Blank == EmptyDestination /\ Fresh

Init ==
    /\ itunes \in Catalogs
    /\ config \in [includes : IncludeChoices, excludes : ExcludeChoices,
                   random_fill : BOOLEAN, use_subfolders : {FALSE},
                   max_file_count : {0}]
    /\ error_callback \in BOOLEAN
    /\ free \in FreeChoices
    /\ pc = "idle"
    /\ filterfile = [includes |-> save_to_file(config.includes),
                     excludes |-> save_to_file(config.excludes)]
    /\ loaded = [includes |-> "", excludes |-> ""]
    /\ Blank

Next ==
    \/ StartRun
    \/ CalculateSpace
    \/ LibraryDataSetOpen
    \/ LibraryDataSetDump
    \/ ResolvePlaylists
    \/ IncludeStep
    \/ FillStep
    \/ CleanSyncList
    \/ CopyStart
    \/ CopyReturn
    \/ CopySkip
    \/ CopyTrack
    \/ MarkFile
    \/ AfterCallback
    \/ Exit
    \/ Crash
    \/ NewProcess
    \/ ChangeFilters
    \/ ManualDelete

Spec == Init /\ [][Next]_vars

(***************************************************************************)
(* Planning: the filter sets are read from their files and one run goes up *)
(* to the end of the planner.  The fill loop runs in one thread that is    *)
(* never blocked, so it keeps taking steps.                                *)
(***************************************************************************)
PlanFree == {Reserve + 1000, Reserve + 500}

PlanInit ==
    /\ itunes \in PlanCatalogs
    /\ config \in [includes : {EmptyFilter}, excludes : {EmptyFilter},
                   random_fill : BOOLEAN, use_subfolders : {FALSE},
                   max_file_count : {0}]
    /\ error_callback = TRUE
    /\ free \in PlanFree
    /\ pc = "load"
    /\ filterfile \in [includes : IncludeDocs, excludes : ExcludeDocs]
    /\ loaded = [includes |-> "", excludes |-> ""]
    /\ Blank

PlanNext ==
    \/ LoadFromFile
    \/ StartRun
    \/ CalculateSpace
    \/ LibraryDataSetOpen
    \/ LibraryDataSetDump
    \/ ResolvePlaylists
    \/ IncludeStep
    \/ FillStep

PlanSpec == PlanInit /\ [][PlanNext]_vars /\ WF_vars(FillStep)

(***************************************************************************)
(* Filter files: names are added to the include set, the set is saved to   *)
(* its file, and the file is read back into the set, which by then may     *)
(* hold other names.                                                       *)
(***************************************************************************)
FilterNames ==
    [albums |-> {"A1", "A2"}, artists |-> {"X"}, genres |-> {"rock"},
     playlists |-> {"fav"}]

\* add_album / add_artist / add_genre / add_playlist
AddName ==
    /\ pc = "idle"
    /\ \/ \E n \in FilterNames.albums \ config.includes.albums :
            config' = [config EXCEPT !.includes.albums = @ \cup {n}]
       \/ \E n \in FilterNames.artists \ config.includes.artists :
            config' = [config EXCEPT !.includes.artists = @ \cup {n}]
       \/ \E n \in FilterNames.genres \ config.includes.genres :
            config' = [config EXCEPT !.includes.genres = @ \cup {n}]
       \/ \E n \in FilterNames.playlists \ config.includes.playlists :
            config' = [config EXCEPT !.includes.playlists = @ \cup {n}]
    /\ UNCHANGED << Setup, Memory, Disk, pc, quit, events, exc, wbuf, wret,
                    History, Counters >>

\* HibikiCLI.open_copy: both sets are saved to their files
SaveToFile ==
    /\ pc = "idle"
    /\ filterfile' = [includes |-> save_to_file(config.includes),
                      excludes |-> save_to_file(config.excludes)]
    /\ saved' = [saved EXCEPT !.valid = TRUE, !.names = Names(config.includes)]
    /\ UNCHANGED << itunes, error_callback, prompt, loaded, config, Memory, Disk, pc,
                    quit, events, exc, wbuf, wret, History, Counters >>

\* a selection prompt is opened on the engine's configuration
OpenSelection ==
    /\ pc = "idle"
    /\ pc' = "load"
    /\ saved' = [saved EXCEPT !.held = Names(config.includes)]
    /\ UNCHANGED << itunes, error_callback, prompt, filterfile, loaded, config, Memory,
                    Disk, quit, events, exc, wbuf, wret, History, Counters >>

FilterInit ==
    /\ itunes = CatalogA
    /\ config \in [includes : { Filter(al, {}, g, {}) : al \in SUBSET FilterNames.albums,
                                                        g \in SUBSET FilterNames.genres },
                   excludes : {EmptyFilter}, random_fill : {FALSE},
                   use_subfolders : {FALSE}, max_file_count : {0}]
    /\ error_callback = TRUE
    /\ free = Reserve
    /\ pc = "idle"
    /\ filterfile = [includes |-> MissingDoc, excludes |-> MissingDoc]
    /\ loaded = [includes |-> "", excludes |-> ""]
    /\ Blank

FilterNext ==
    \/ AddName
    \/ SaveToFile
    \/ OpenSelection
    \/ LoadFromFile

FilterSpec == FilterInit /\ [][FilterNext]_vars

(***************************************************************************)
(* A destination that an earlier synchronization filled: the state store   *)
(* has entries, some for identifiers the catalog no longer has, and their  *)
(* files are in folder 0 or in the root.  The pipeline runs without        *)
(* interference other than failing copies and one file removed by hand.    *)
(***************************************************************************)
Entry(p, path) == [id |-> p, path |-> path]

DestStores ==
    LET e0 == Entry("P0", Path(0, "old.mp3"))
        e1 == Entry("P1", Path(0, "song.mp3"))
        e2 == Entry("P2", Path(Root, "b.mp3"))
    IN  { << e1 >>, << e0 >>, << e0, e1 >>, << e1, e2 >>, << e0, e2 >> }

\* the files of the entries of a store, each of one byte more than its
\* position in the store
FilesOf(store) ==
    [p \in { store[i].path : i \in DOMAIN store } |->
        LET i == CHOOSE j \in DOMAIN store : store[j].path = p
        IN  [pid |-> store[i].id, bytes |-> i, complete |-> TRUE]]

DestInit ==
    /\ itunes = CatalogB
    /\ config \in [includes : { Filter({}, {}, {"jazz"}, {}), Filter({}, {"X"}, {}, {}) },
                   excludes : {EmptyFilter}, random_fill : BOOLEAN,
                   use_subfolders : {FALSE}, max_file_count : {0}]
    /\ error_callback \in BOOLEAN
    /\ free \in FreeChoices
    /\ pc = "idle"
    /\ filterfile = [includes |-> save_to_file(config.includes),
                     excludes |-> save_to_file(config.excludes)]
    /\ loaded = [includes |-> "", excludes |-> ""]
    /\ \E store \in DestStores :
            /\ statefile = Json(store)
            /\ files = FilesOf(store)
    /\ dirs = {0}
    /\ Fresh

DestNext ==
    \/ StartRun
    \/ CalculateSpace
    \/ LibraryDataSetOpen
    \/ LibraryDataSetDump
    \/ ResolvePlaylists
    \/ IncludeStep
    \/ FillStep
    \/ CleanSyncList
    \/ CopyStart
    \/ CopyReturn
    \/ CopySkip
    \/ CopyTrack
    \/ MarkFile
    \/ AfterCallback
    \/ ManualDelete

DestSpec == DestInit /\ [][DestNext]_vars

(***************************************************************************)
(* Subfolders: every track of the catalog is selected and fits, files are  *)
(* placed in numbered folders.                                             *)
(***************************************************************************)
MaxFileCount == 2

FolderInit ==
    /\ itunes = CatalogB
    /\ config \in [includes : {Filter({}, {"X"}, {}, {"fav"})},
                   excludes : {EmptyFilter}, random_fill : BOOLEAN,
                   use_subfolders : {TRUE}, max_file_count : 1..MaxFileCount]
    /\ error_callback \in BOOLEAN
    /\ free = Reserve + 5
    /\ pc = "idle"
    /\ filterfile = [includes |-> save_to_file(config.includes),
                     excludes |-> save_to_file(config.excludes)]
    /\ loaded = [includes |-> "", excludes |-> ""]
    /\ Blank

FolderSpec == FolderInit /\ [][Next]_vars

(***************************************************************************)
(* Subfolders with every maximum from 0, the default, on a destination     *)
(* that is empty or has folder 0 with one dot file in it.  The pipeline    *)
(* runs as in DestSpec.                                                    *)
(***************************************************************************)
DotFile == Path(0, ".hidden")

TargetInit ==
    /\ itunes = CatalogB
    /\ config \in [includes : {Filter({}, {"X"}, {}, {})},
                   excludes : {EmptyFilter}, random_fill : BOOLEAN,
                   use_subfolders : {TRUE}, max_file_count : 0..MaxFileCount]
    /\ error_callback \in BOOLEAN
    /\ free = Reserve + 5
    /\ pc = "idle"
    /\ filterfile = [includes |-> save_to_file(config.includes),
                     excludes |-> save_to_file(config.excludes)]
    /\ loaded = [includes |-> "", excludes |-> ""]
    /\ statefile = EmptyFile
    /\ \/ files = << >> /\ dirs = {}
       \/ /\ files = (DotFile :> [pid |-> "", bytes |-> 1, complete |-> TRUE])
          /\ dirs = {0}
    /\ Fresh

TargetSpec == TargetInit /\ [][DestNext]_vars

(***************************************************************************)
(* SelectionPrompt: eight screens of checkboxes, one per name group of the *)
(* include set and of the exclude set.  index counts from 0 as in the      *)
(* code.                                                                   *)
(***************************************************************************)
MaxOpened == 3
MaxToggles == 2

\* SelectionPrompt._init_options: the option screens, in order
Screens ==
    << [set |-> "includes", group |-> "artists"],
       [set |-> "includes", group |-> "albums"],
       [set |-> "includes", group |-> "genres"],
       [set |-> "includes", group |-> "playlists"],
       [set |-> "excludes", group |-> "artists"],
       [set |-> "excludes", group |-> "albums"],
       [set |-> "excludes", group |-> "genres"],
       [set |-> "excludes", group |-> "playlists"] >>

\* all_artists / all_albums / all_genres (values that are not None or
\* empty) / all_playlists
ScreenItems(g) ==
    CASE g = "artists" -> { itunes.tracks[i].artist : i \in 1..NumTracks } \ {None, ""}
      [] g = "albums" -> { itunes.tracks[i].album : i \in 1..NumTracks } \ {None, ""}
      [] g = "genres" -> { itunes.tracks[i].genre : i \in 1..NumTracks } \ {None, ""}
      [] OTHER -> { itunes.playlists[i].name : i \in DOMAIN itunes.playlists }

\* options.source: the name set of the filter set a screen edits
Source(cfg, s) == cfg[s.set][s.group]

WithSource(cfg, s, names) == [cfg EXCEPT ![s.set][s.group] = names]

\* HibikiCLI.open_copy, called from generate_checkboxes: one more copy
\* screen, with its copy thread
open_copy(p) == [p EXCEPT !.opened = @ + 1]

\* self.options[self.index] raises IndexError
OutOfRange(p) == p.index >= Len(Screens)

generate_checkboxes(p, cfg) ==
    IF OutOfRange(p)
    THEN [prompt |-> open_copy(p), config |-> cfg]
    ELSE LET s == Screens[p.index + 1] IN
         [prompt |-> [p EXCEPT !.items = ScreenItems(s.group),
                               !.boxes = ScreenItems(s.group) \cap Source(cfg, s)],
          config |-> WithSource(cfg, s, {})]

\* save raises IndexError at its first checked box when index is out of range
SaveRaises(p) == p.boxes # {} /\ OutOfRange(p)

save(p, cfg) ==
    generate_checkboxes([p EXCEPT !.index = @ + 1],
                        IF p.boxes = {} THEN cfg
                        ELSE WithSource(cfg, Screens[p.index + 1],
                                        Source(cfg, Screens[p.index + 1]) \cup p.boxes))

\* the files written by the open_copy calls of a step, if it made any
AfterOpen(r) ==
    IF r.prompt.opened > prompt.opened
    THEN /\ filterfile' = [includes |-> save_to_file(r.config.includes),
                           excludes |-> save_to_file(r.config.excludes)]
         /\ saved' = [saved EXCEPT !.valid = TRUE, !.names = Names(r.config.includes)]
    ELSE UNCHANGED << filterfile, saved >>

\* SelectionPrompt.__init__ after _init_options: the first screen
InitPrompt ==
    /\ pc = "idle"
    /\ LET r == generate_checkboxes(NoPrompt, config) IN
            /\ prompt' = r.prompt
            /\ config' = r.config
    /\ pc' = "select"
    /\ UNCHANGED << itunes, error_callback, filterfile, loaded, saved, Memory,
                    Disk, quit, events, exc, wbuf, wret, History, Counters >>

\* the user changes the state of one checkbox
Toggle ==
    /\ pc = "select"
    /\ changes < MaxToggles
    /\ changes' = changes + 1
    /\ \E l \in prompt.items :
            prompt' = [prompt EXCEPT !.boxes = IF l \in @ THEN @ \ {l} ELSE @ \cup {l}]
    /\ UNCHANGED << itunes, error_callback, filterfile, loaded, saved, config,
                    Memory, Disk, pc, quit, events, exc, wbuf, wret, History,
                    runs, faults, crashes, manual, cancels >>

\* key 'c': save
Continue ==
    /\ pc = "select"
    /\ LET r == save(prompt, config) IN
            /\ prompt' = r.prompt
            /\ config' = r.config
            /\ AfterOpen(r)
            /\ pc' = IF r.prompt.opened > prompt.opened THEN "copying" ELSE "select"
    /\ UNCHANGED << itunes, error_callback, loaded, Memory, Disk, quit, events,
                    exc, wbuf, wret, History, Counters >>

\* key 's': one iteration of the loop of SelectionPrompt.skip
SkipStep ==
    /\ pc \in {"select", "skip"}
    /\ prompt.opened < MaxOpened
    /\ IF SaveRaises(prompt)
       THEN /\ pc' = "copying"
            /\ UNCHANGED << prompt, config, filterfile, saved >>
       ELSE LET r == save(prompt, config) IN
            /\ prompt' = r.prompt
            /\ config' = r.config
            /\ AfterOpen(r)
            /\ pc' = "skip"
    /\ UNCHANGED << itunes, error_callback, loaded, Memory, Disk, quit, events,
                    exc, wbuf, wret, History, Counters >>

SkipInit ==
    /\ itunes = CatalogB
    /\ config = [includes |-> EmptyFilter, excludes |-> EmptyFilter,
                 random_fill |-> FALSE, use_subfolders |-> FALSE,
                 max_file_count |-> 0]
    /\ error_callback = TRUE
    /\ free = Reserve
    /\ pc = "load"
    /\ filterfile \in [includes : { MissingDoc, save_to_file(Filter({}, {"X"}, {}, {})) },
                       excludes : { MissingDoc,
                                    save_to_file(Filter({}, {}, {"rock"}, {})),
                                    save_to_file(Filter({}, {}, {}, {"live"})) }]
    /\ loaded = [includes |-> "", excludes |-> ""]
    /\ EmptyDestination
    /\ Fresh

SkipNext ==
    \/ LoadFromFile
    \/ InitPrompt
    \/ Toggle
    \/ Continue
    \/ SkipStep

SkipSpec == SkipInit /\ [][SkipNext]_vars

(***************************************************************************)
(* Properties                                                              *)
(***************************************************************************)
RECURSIVE SumSizes(_)
SumSizes(adm) == IF adm = << >> THEN 0 ELSE Head(adm).size + SumSizes(Tail(adm))

Max(a, b) == IF a >= b THEN a ELSE b

CatalogTracks == { itunes.tracks[i] : i \in 1..NumTracks }

HasEvent(k, p) == \E i \in DOMAIN events : events[i].kind = k /\ events[i].pid = p

HasKind(k) == \E i \in DOMAIN events : events[i].kind = k

\* reconciliation has returned in the current run
AfterReconcile ==
    \/ pc \in {"w_open", "w_dump"} /\ wret \in {"copy_start", "after"}
    \/ pc \in {"copy_start", "copy_loop", "mark", "after", "finished", "raised"}

C2_ExclusionDominates ==
    (Running /\ plan0 = {}) =>
        \A t \in CatalogTracks :
            is_filtered(config.excludes, t) => t.persistent_id \notin tracks

C2_Witness ==
    /\ pc = "clean"
    /\ plan0 = {}
    /\ config.random_fill
    /\ tracks # {}
    /\ \E t \in CatalogTracks :
          /\ is_filtered(config.excludes, t)
          /\ is_filtered(config.includes, t)
          /\ t.size <= budget

\* C3: the state store gains no entry for a track whose copy failed with an
\* I/O error in this run.
C3_NoEntryForFailedTrack == \A p \in failed : p \notin Keys(library_data)

\* C4: once the failure of a copy is handled (the handler returned), no
\* partially written file of the failed track is left on the destination and,
\* when an error callback was supplied, an error notification was emitted for
\* the track.
C4_PartialFileRemoved ==
    Running =>
        \A p \in failed :
            /\ \A q \in DOMAIN files : ~(files[q].pid = p /\ ~files[q].complete)
            /\ error_callback => HasEvent("error", p)

\* C5: no exception leaves generate_sync_list or copy_tracks because of the
\* failure of a single item.
C5_NoExceptionPropagates == pc # "raised"

\* C6: when reconciliation has returned, every entry that was in the store
\* before it and is not in the plan has no file and no entry left; every entry
\* that is in the plan is still in the store with the same path and its file
\* is as it was.
C6_ReconcileRoundTrip ==
    pc = "copy_start" =>
        \A i \in DOMAIN pre.store :
            LET e == pre.store[i] IN
            IF e.id \notin pre.plan
            THEN e.path \notin DOMAIN files /\ e.id \notin Keys(library_data)
            ELSE /\ e.id \in Keys(library_data)
                 /\ Get(library_data, e.id) = e.path
                 /\ e.path \in DOMAIN pre.files =>
                        e.path \in DOMAIN files /\ files[e.path] = pre.files[e.path]

\* C7: after reconciliation the set of tracks to copy is the plan as it was
\* before reconciliation minus the identifiers that had a state-store entry.
C7_TracksToCopy == AfterReconcile => tracks = pre.plan \ Keys(pre.store)

C7_Witness ==
    /\ pc = "copy_start"
    /\ tracks # {}
    /\ Keys(pre.store) \cap pre.plan # {}
    /\ Keys(pre.store) \ pre.plan # {}

\* C8: a second run with the same catalog and filters, after a first run in
\* which every copy succeeded, without cancellation, crash, filter change or
\* outside change of the destination, deletes nothing and copies nothing.
C8_SecondRunIdle ==
    (runs = 2 /\ Disturbances = 0)
        => (~HasKind("delete") /\ ~HasKind("before_copy") /\ ~HasKind("error"))

\* C9: when the cancellation flag is true at a per-track check of copy_tracks,
\* no further track is started: no notification is emitted and no file of the
\* destination changes from there on.
C9_CancelStopsLoop ==
    [][(pc = "copy_loop" /\ quit) => (events' = events /\ files' = files)]_vars

\* C10: after a crash the state store read on restart still has the entry of
\* every track recorded in the crashed run.
C10_CrashKeepsRecorded ==
    [][(crashes' = crashes + 1) => recorded \subseteq Keys(library_data')]_vars

\* sum, over the entries of a store, of the size on disk of the entry's file
\* (nothing for a file that does not exist)
RECURSIVE SumBytes(_)
SumBytes(lib) ==
    IF lib = << >> THEN 0 ELSE Bytes(files, Head(lib).path) + SumBytes(Tail(lib))

\* C11: calculate_space keeps exactly the entries whose file exists, in their
\* order and with their paths, raises nothing, and writes that store to the
\* state file; when it has returned every entry of the persisted store points
\* to an existing file.
C11_PruneMissing ==
    [][/\ (pc = "calc" /\ crashes' = crashes) =>
            /\ wbuf' = SelectSeq(library_data, LAMBDA e : e.path \in DOMAIN files)
            /\ pc' # "raised"
       /\ pc' = "resolve" =>
            /\ statefile' = Json(wbuf)
            /\ \A i \in DOMAIN statefile'.data :
                    statefile'.data[i].path \in DOMAIN files'
      ]_vars

C11_Witness ==
    /\ pc = "resolve"
    /\ pruned # {}
    /\ library_data # << >>

\* C12: the budget returned by calculate_space is the free bytes of the
\* volume minus 5 * 1024 * 1024 plus the on-disk sizes of the files of the
\* entries whose file exists.
C12_EffectiveBudget ==
    [][(pc = "calc" /\ crashes' = crashes) =>
            budget' = (free - 5 * 1024 * 1024) + SumBytes(library_data)]_vars

C12_Witness ==
    /\ pc = "resolve"
    /\ pruned # {}
    /\ budget > free - 5 * 1024 * 1024

\* one first-fit pass over the catalog positions i..NumTracks, starting with
\* the remaining budget and the plan of st
RECURSIVE FirstFit(_, _)
FirstFit(i, st) ==
    IF i > NumTracks THEN st
    ELSE LET t == itunes.tracks[i]
             admit == /\ ~is_filtered(config.excludes, t)
                      /\ is_filtered(config.includes, t)
                      /\ t.size <= st.space
         IN  FirstFit(i + 1, IF admit
                             THEN [space |-> st.space - t.size,
                                   plan |-> st.plan \cup {t.persistent_id}]
                             ELSE st)

\* the tracks that are included and not excluded, in catalog order
Wanted == SelectSeq(itunes.tracks, LAMBDA t : /\ ~is_filtered(config.excludes, t)
                                              /\ is_filtered(config.includes, t))

\* Scenario A: budget 1000, included tracks of size 600 and 500 in that order
ScenarioA ==
    /\ pc = "clean"
    /\ ~config.random_fill
    /\ plan0 = {}
    /\ budget = 1000
    /\ Len(Wanted) = 2
    /\ Wanted[1].size = 600
    /\ Wanted[2].size = 500

\* C13: with random fill disabled and an initially empty plan, the plan and
\* the remaining budget at the end of the planner are those of one first-fit
\* pass over the catalog in catalog order; in Scenario A the plan is the first
\* track alone and 400 remain.
C13_FirstFitPass ==
    /\ (pc = "clean" /\ ~config.random_fill /\ plan0 = {}) =>
            LET r == FirstFit(1, [space |-> budget, plan |-> {}])
            IN  tracks = r.plan /\ space = r.space
    /\ ScenarioA => (tracks = {Wanted[1].persistent_id} /\ space = 400)

\* a pass that skips a track that does not fit and admits a later one
SkipAndContinue ==
    /\ pc = "clean"
    /\ ~config.random_fill
    /\ Len(Wanted) = 3
    /\ Wanted[2].persistent_id \notin tracks
    /\ Wanted[3].persistent_id \in tracks

C13_Witness == ScenarioA /\ Len(admitted) = 1

\* C14: the fill phase starts with every catalog track in its working list,
\* each iteration takes exactly one track out of the list and puts none
\* back, the phase ends when the list is empty, and it always ends.
C14_FillTerminates ==
    /\ [][/\ (pc # "fill" /\ pc' = "fill") => music' = 1..NumTracks
          /\ pc = "fill" =>
                IF music = {}
                THEN pc' = "clean"
                ELSE /\ pc' = "fill"
                     /\ music' \subseteq music
                     /\ Cardinality(music') = Cardinality(music) - 1
         ]_vars
    /\ (pc = "fill") ~> (pc = "clean" /\ music = {})

C14_Witness ==
    /\ pc = "clean"
    /\ config.random_fill
    /\ music = {}
    /\ Len(admitted) >= 1
    /\ Len(admitted) < NumTracks

\* notifications of reconciliation: a deletion, or an error reported with the
\* path of the file that could not be removed
FromReconcile(e) == e.kind = "delete" \/ (e.kind = "error" /\ e.pid = "")

\* notifications of the copy phase
FromCopy(e) == e.kind \in {"before_copy", "after_copy"} \/ (e.kind = "error" /\ e.pid # "")

\* C15: in the notifications of a run no notification of reconciliation comes
\* after a notification of the copy phase, and reconciliation (the only step
\* of generate_sync_list that deletes files) never runs once a copy-phase
\* notification was emitted.
C15_ReconcileBeforeCopy ==
    /\ \A i, j \in DOMAIN events :
            (i < j /\ FromCopy(events[i])) => ~FromReconcile(events[j])
    /\ pc = "clean" => \A i \in DOMAIN events : ~FromCopy(events[i])

C15_Witness ==
    /\ pc = "finished"
    /\ HasKind("delete")
    /\ HasKind("after_copy")

\* position of a track in the catalog
Position(p) == CHOOSE i \in 1..NumTracks : itunes.tracks[i].persistent_id = p

\* the copy-phase notifications come in pairs before-copy(t), then
\* after-copy(t) or error(t), the pairs are in catalog order, and a track with
\* an after-copy notification has an entry in the state store
PairedInOrder(cp) ==
    /\ Len(cp) % 2 = 0
    /\ \A k \in DOMAIN cp :
          IF k % 2 = 1
          THEN /\ cp[k].kind = "before_copy"
               /\ k + 1 \in DOMAIN cp
               /\ cp[k + 1].kind \in {"after_copy", "error"}
               /\ cp[k + 1].pid = cp[k].pid
               /\ k + 2 \in DOMAIN cp => Position(cp[k].pid) < Position(cp[k + 2].pid)
          ELSE cp[k].kind = "after_copy" => cp[k].pid \in Keys(library_data)

\* C16: whenever copy_tracks is between two tracks or has ended (by return
\* or by an exception), every before-copy notification of the run has been
\* followed by exactly one after-copy or error notification of its track, in
\* catalog order.
C16_CopyNotifications ==
    pc \in {"copy_loop", "finished", "raised"} => PairedInOrder(SelectSeq(events, FromCopy))

\* tracks copied successfully in this run
Succeeded == recorded \ failed

\* number of tracks copied successfully before the track at catalog position i
Rank(i) == Cardinality({ j \in 1..(i - 1) : itunes.tracks[j].persistent_id \in Succeeded })

\* C17: in the first run on a destination without numbered folders, with
\* subfolders enabled and M >= 1 files per folder, the k-th successfully
\* copied track (k from 0) was placed in folder floor(k / M).
C17_FolderOfKth ==
    (/\ config.use_subfolders
     /\ config.max_file_count >= 1
     /\ runs = 1
     /\ pc \in {"copy_loop", "finished"}) =>
        \A i \in 1..NumTracks :
            itunes.tracks[i].persistent_id \in Succeeded =>
                Get(library_data, itunes.tracks[i].persistent_id).dir
                    = Rank(i) \div config.max_file_count

\* C18: a run that finds a state file it cannot parse stops with a
\* configuration error at its first read, leaving the state file and the
\* files of the destination as they are.
C18_CorruptStateStops ==
    [][(pc = "calc" /\ statefile.kind = "torn" /\ crashes' = crashes) =>
            /\ pc' = "raised"
            /\ exc' = "InvalidConfigError"
            /\ statefile' = statefile
            /\ files' = files]_vars

\* C19: when the filter file is missing or its content is not a JSON object,
\* load_from_file has raised InvalidConfigError and has left the filter set
\* as it was.
C19_LoadReportsConfigError ==
    (loaded.includes # "" /\ filterfile.includes.kind # "object") =>
        /\ loaded.includes = "InvalidConfigError"
        /\ Names(config.includes) = Names(EmptyFilter)

\* a track matches a filter set through a field it has, or through its
\* identifier
Matches(f, t) ==
    \/ t.album # None /\ t.album \in f.albums
    \/ t.artist # None /\ t.artist \in f.artists
    \/ t.genre # None /\ t.genre \in f.genres
    \/ t.track_id \in f.tracks

\* C20: is_filtered is true exactly for the tracks that match through an
\* album, artist or genre they have or through their identifier; the include
\* pass admits only tracks that match the include set and do not match the
\* exclude set in this sense.
C20_IsFiltered ==
    /\ \A t \in CatalogTracks :
            /\ is_filtered(config.includes, t) = Matches(config.includes, t)
            /\ is_filtered(config.excludes, t) = Matches(config.excludes, t)
    /\ (pc \in {"include", "clean"} /\ ~config.random_fill) =>
            \A t \in CatalogTracks :
                t.persistent_id \in tracks =>
                    Matches(config.includes, t) /\ ~Matches(config.excludes, t)

\* the include pass went past a track without album that fits and is not
\* excluded, while the include set names an album
C20_Witness ==
    /\ pc = "clean"
    /\ ~config.random_fill
    /\ tracks # {}
    /\ config.includes.albums # {}
    /\ \E t \in CatalogTracks :
            /\ t.album = None
            /\ t.persistent_id \notin tracks
            /\ ~is_filtered(config.excludes, t)
            /\ t.size <= space

\* C21: reading a filter file that save_to_file wrote leaves the set with
\* the four name sets it had when it was saved, whatever it held when the
\* file was read; the saved document has a field exactly for the name sets
\* that are not empty.
C21_SaveLoadRoundTrip ==
    /\ [][(pc = "load" /\ saved.valid) =>
            /\ loaded'.includes = "ok"
            /\ Names(config'.includes) = saved.names]_vars
    /\ [](saved.valid =>
            \A g \in {"albums", "artists", "genres", "playlists"} :
                filterfile.includes[g].present = (saved.names[g] # {}))

C21_Witness ==
    /\ pc = "idle"
    /\ saved.valid
    /\ loaded.includes = "ok"
    /\ Names(config.includes) = saved.names
    /\ saved.names.albums = {}
    /\ saved.held.albums # {}
    /\ saved.names.genres # {}

CatalogIds == { itunes.tracks[i].persistent_id : i \in 1..NumTracks }

\* the deletion notification for an entry: the catalog's track when the
\* catalog has the identifier, the entry's path otherwise
DeletionOf(e) ==
    IF e.id \in CatalogIds THEN Event("delete", e.id, NoPath)
                           ELSE Event("delete", "", e.path)

\* Scenario B: one entry in the store, one other identifier in the plan
ScenarioB ==
    /\ Len(pre.store) = 1
    /\ Cardinality(pre.plan) = 1
    /\ pre.store[1].id \notin pre.plan
    /\ pre.store[1].path \in DOMAIN pre.files

\* C22: when reconciliation has returned, the deletion notifications are, in
\* order, those of the entries it removed from the store, one each, and
\* nothing else; in Scenario B the file of the entry is gone, there is one
\* deletion notification, the tracks to copy are the plan and the copy phase
\* starts no other track.
C22_DeletionNotifications ==
    /\ pc = "copy_start" =>
            SelectSeq(events, LAMBDA e : e.kind = "delete")
                = [i \in DOMAIN SelectSeq(pre.store, LAMBDA e : e.id \notin Keys(library_data))
                     |-> DeletionOf(SelectSeq(pre.store,
                                     LAMBDA e : e.id \notin Keys(library_data))[i])]
    /\ (pc \in {"copy_start", "finished"} /\ ScenarioB) =>
            /\ pre.store[1].path \notin DOMAIN files
            /\ Len(SelectSeq(events, LAMBDA e : e.kind = "delete")) = 1
            /\ tracks = pre.plan
            /\ \A i \in DOMAIN events :
                    events[i].kind = "before_copy" => events[i].pid \in pre.plan

\* two entries were removed, one of an identifier the catalog has and one of
\* an identifier it no longer has
C22_Witness ==
    /\ pc = "copy_start"
    /\ \E i, j \in DOMAIN events :
            /\ events[i].kind = "delete" /\ events[i].pid = ""
            /\ events[j].kind = "delete" /\ events[j].pid # ""

\* the entries of the store that reconciliation found outside the plan
Unwanted == SelectSeq(pre.store, LAMBDA e : e.id \notin pre.plan)

\* C23: an unwanted entry whose file is already absent gets one error
\* notification (when an error callback is supplied) and stays in the store;
\* the pass goes on: every other unwanted entry is removed with its file;
\* the store is written once, after the pass, with the result.
C23_AbsentFileReported ==
    /\ [](pc = "copy_start" =>
            /\ error_callback =>
                    SelectSeq(events, LAMBDA e : e.kind = "error")
                        = [i \in DOMAIN SelectSeq(Unwanted, LAMBDA e : e.path \notin DOMAIN pre.files)
                             |-> Event("error", "",
                                       SelectSeq(Unwanted,
                                           LAMBDA e : e.path \notin DOMAIN pre.files)[i].path)]
            /\ \A i \in DOMAIN Unwanted :
                    Unwanted[i].path \in DOMAIN pre.files =>
                        /\ Unwanted[i].path \notin DOMAIN files
                        /\ Unwanted[i].id \notin Keys(library_data)
            /\ library_data = SelectSeq(pre.store,
                    LAMBDA e : e.id \in pre.plan \/ e.path \notin DOMAIN pre.files))
    /\ [][/\ (pc = "clean" /\ pc' # "clean") =>
                (statefile' = statefile /\ wret' = "copy_start" /\ pc' = "w_open")
          /\ (pc = "w_open" /\ wret = "copy_start") => pc' = "w_dump"
          /\ (pc = "w_dump" /\ wret = "copy_start") =>
                (pc' = "copy_start" /\ statefile' = Json(wbuf))]_vars

\* the file of the first unwanted entry was absent, the file of a later one
\* was deleted
C23_Witness ==
    /\ pc = "copy_start"
    /\ \E i, j \in DOMAIN events :
            /\ i < j
            /\ events[i].kind = "error"
            /\ events[j].kind = "delete"

\* C24: the plan that reaches reconciliation is the set of identifiers this
\* run's planner admitted.
C24_PlanIsFresh ==
    pc = "clean" => tracks = { admitted[i].pid : i \in DOMAIN admitted }

\* the member track ids of the playlists whose names a filter set selects
SelectedMembers(f) ==
    UNION { itunes.playlists[i].tracks :
                i \in { j \in DOMAIN itunes.playlists :
                            itunes.playlists[j].name \in f.playlists } }

\* C25: after get_playlist_tracks the resolved identifiers of each filter set
\* are the members of the playlists that set selects now.
C25_ResolvedIsUnion ==
    pc = "include" =>
        /\ config.includes.tracks = SelectedMembers(config.includes)
        /\ config.excludes.tracks = SelectedMembers(config.excludes)

\* C26: within a run no track is started twice by the copy phase, and no
\* track that had a store entry when the copy phase started is started.
C26_NoDuplicateCopy ==
    pc \in {"copy_loop", "mark", "after", "finished", "raised", "w_open", "w_dump"} =>
        /\ \A i, j \in DOMAIN events :
                (i < j /\ events[i].kind = "before_copy" /\ events[j].kind = "before_copy")
                    => events[i].pid # events[j].pid
        /\ \A i \in DOMAIN events :
                events[i].kind = "before_copy" => events[i].pid \notin pre.held

\* a run ended in which one planned track had its entry already and another
\* planned track was copied
C26_Witness ==
    /\ pc = "finished"
    /\ pre.held \cap pre.plan # {}
    /\ \E i \in DOMAIN events :
            /\ events[i].kind = "after_copy"
            /\ events[i].pid \in pre.plan

\* the number of notifications of one of the kinds for track p in this run
Notified(kinds, p) ==
    Cardinality({ i \in DOMAIN events : events[i].kind \in kinds /\ events[i].pid = p })

\* C27: when the copy phase of a run that was not cancelled has ended, by
\* return or by an exception, every identifier of the tracks to copy that
\* the catalog has was started once and ended once, in an after-copy or in
\* an error notification.
C27_EveryTrackAttemptedOnce ==
    (pc \in {"finished", "raised"} /\ runs >= 1 /\ ~quit) =>
        \A p \in tracks \cap CatalogIds :
            /\ Notified({"before_copy"}, p) = 1
            /\ Notified({"after_copy", "error"}, p) = 1

\* C28: the space budget of the planner is never negative while the plan is
\* being computed.
C28_BudgetNeverNegative ==
    pc \in {"resolve", "include", "fill", "clean"} => space >= 0

C30_RecordedFilesExist ==
    (pc = "finished" /\ manual = 0 /\ crashes = 0) =>
        \A p \in recorded : Get(library_data, p) \in DOMAIN files

\* a run has ended by return, it started with an empty plan set (as on a
\* fresh engine object), it was not cancelled, no copy failed and the file of
\* every unwanted entry was there to delete
CleanRun ==
    /\ pc = "finished"
    /\ plan0 = {}
    /\ ~quit
    /\ failed = {}
    /\ \A i \in DOMAIN Unwanted : Unwanted[i].path \in DOMAIN pre.files

\* the store is the plan of this run's planner and every entry has its file
StoreIsPlan ==
    /\ Keys(library_data) = { admitted[i].pid : i \in DOMAIN admitted }
    /\ \A i \in DOMAIN library_data : library_data[i].path \in DOMAIN files

\* C31: after a run on a fresh engine object in which every
\* delete and every copy succeeded and that was not cancelled, the keys of
\* the store are the plan of the run's planner and the file of every entry
\* exists.
C31_StoreIsPlan == CleanRun => StoreIsPlan

\* C32: two distinct identifiers of the state store never map to the same
\* destination path.
C32_DistinctPaths ==
    \A i, j \in DOMAIN library_data :
        i # j => library_data[i].path # library_data[j].path

\* C33: with random fill, when planning has ended every track of the catalog
\* that is neither excluded nor in the plan is larger than the remaining
\* budget.
C33_FillIsMaximal ==
    (pc = "clean" /\ config.random_fill) =>
        \A i \in 1..NumTracks :
            (/\ ~is_filtered(config.excludes, itunes.tracks[i])
             /\ itunes.tracks[i].persistent_id \notin tracks)
                => itunes.tracks[i].size > space

\* the fill admitted a track the include filter does not match, and a track
\* that is not excluded was left out because it does not fit
C33_Witness ==
    /\ pc = "clean"
    /\ config.random_fill
    /\ space >= 0
    /\ \E i \in 1..NumTracks :
            /\ itunes.tracks[i].persistent_id \in tracks
            /\ ~is_filtered(config.includes, itunes.tracks[i])
    /\ \E i \in 1..NumTracks :
            /\ ~is_filtered(config.excludes, itunes.tracks[i])
            /\ itunes.tracks[i].persistent_id \notin tracks

\* C34: skip opens the copy screen once: no second copy screen is ever
\* opened, and when skip has returned one copy screen is open.
C34_OpensCopyOnce ==
    /\ prompt.opened <= 1
    /\ pc = "copying" => prompt.opened = 1

====
